---------------------------- MODULE Spec2Model ----------------------------
(***************************************************************************)
(* Model of stremlite_excel_to_pdf.py: the "Convert to PDF" handler, the   *)
(* per-workbook conversion session convert_excel_fast, the export with     *)
(* fallback of each sheet, the archive and the cleanup.                    *)
(*                                                                         *)
(* Names (file names, sheet names) are sequences of one-character strings. *)
(* The disk, the rendering-engine processes and the COM state outlive one  *)
(* run of the script; the script's locals are reset by Rerun.              *)
(***************************************************************************)
EXTENDS Integers, Sequences, FiniteSets, TLC

\* ------------------------------------------------------------------ bounds
MaxRequests == 2
MaxFiles == 2
MaxSheets == 2
\* characters that follow the padding of a long name
MaxTail == 2

\* ------------------------------------------------------- program constants
\* name[:120]
MaxNameLen == 120

\* ------------------------------------------------------------ input sets
\* Display names of uploaded files (the uploader accepts xlsx and xls).
FileNames ==
    { <<"A", ".", "x", "l", "s", "x">>,
      <<"A", ".", "x", "l", "s">>,
      <<"B", ".", "x", "l", "s", "x">> }

\* Sheet names a workbook can carry (the engine forbids : \ / ? * [ ] in a
\* sheet name, and allows < > | and the double quote).
SheetNames ==
    { <<"a", "<", "b">>, <<"a", ">", "b">>, <<"c">> }

RECURSIVE SeqsUpTo(_, _)
SeqsUpTo(S, n) ==
    IF n = 0 THEN { <<>> }
    ELSE LET shorter == SeqsUpTo(S, n - 1)
         IN  shorter \cup { Append(q, x) : q \in shorter, x \in S }

Distinct(q) == \A i, j \in 1..Len(q) : i # j => q[i] # q[j]

\* the uploads of one request: any list of at most MaxFiles files
Uploads == SeqsUpTo(FileNames, MaxFiles)

\* the sheets of one workbook: at least one sheet, names unique in a workbook
SheetLists == { q \in SeqsUpTo(SheetNames, MaxSheets) : Len(q) >= 1 /\ Distinct(q) }

\* ------------------------------------------------------- pure functions
Min(a, b) == IF a < b THEN a ELSE b

Forbidden == { "<", ">", ":", "\"", "\\", "/", "|", "?", "*" }

\* _sanitize without the slice name[:120]
SanitizeUncut(name) ==
    [i \in 1..Len(name) |-> IF name[i] \in Forbidden THEN "_" ELSE name[i]]

\* _sanitize: re.sub(r'[<>:"\\/|?*]', "_", name) then name[:120]
_sanitize(name) ==
    LET replaced == [i \in 1..Len(name) |->
                        IF name[i] \in Forbidden THEN "_" ELSE name[i]]
    IN  SubSeq(replaced, 1, Min(Len(replaced), MaxNameLen))

\* os.path.splitext: the extension starts at the last dot, unless only dots
\* precede it
splitext(name) ==
    LET dots == { i \in 1..Len(name) : name[i] = "." }
        last == IF dots = {} THEN 0
                ELSE CHOOSE i \in dots : \A j \in dots : j <= i
        real == last > 0 /\ \E j \in 1..(last - 1) : name[j] # "."
    IN  IF real
        THEN [root |-> SubSeq(name, 1, last - 1), ext |-> SubSeq(name, last, Len(name))]
        ELSE [root |-> name, ext |-> <<>>]

\* f"{sheet_name}.pdf"
PdfName(sheetName) == _sanitize(sheetName) \o <<".", "p", "d", "f">>

\* ------------------------------------------------------ layout options
\* False, as the page-setup properties Zoom / FitToPagesWide / FitToPagesTall
\* receive it
Off == 0

\* int(scale) replaced by a clamp to the slider's range
IntOfClamped(scale) == IF scale < 50 THEN 50 ELSE IF scale > 200 THEN 200 ELSE scale

\* int(scale): the scale is an integer, int() leaves it as it is
IntOf(scale) == scale

\* paper_size_map.get with A4 as the default
PaperSizeMapA4Default(label) ==
    CASE label = "Letter (8.5x11)" -> 1
      [] label = "A4 (210x297mm)" -> 5
      [] label = "A3 (297x420mm)" -> 8
      [] OTHER -> 5

\* paper_size_map.get(paper_size, 1)
paper_size_map(label) ==
    CASE label = "Letter (8.5x11)" -> 1
      [] label = "A4 (210x297mm)" -> 5
      [] label = "A3 (297x420mm)" -> 8
      [] OTHER -> 1

\* the page-setup calls with the fit branches tested in the other order
ApplyLayoutColumnsFirst(ps, o) ==
    LET base == [ps EXCEPT !.PaperSize = paper_size_map(o.paper_size),
                           !.Orientation = IF o.orientation_choice = "Portrait" THEN 1 ELSE 2,
                           !.LeftMargin = o.margins, !.RightMargin = o.margins,
                           !.TopMargin = o.margins, !.BottomMargin = o.margins]
    IN  IF o.fit_columns_wide
        THEN [base EXCEPT !.Zoom = Off, !.FitToPagesWide = 1, !.FitToPagesTall = Off]
        ELSE IF o.fit_to_page
        THEN [base EXCEPT !.Zoom = Off, !.FitToPagesWide = 1, !.FitToPagesTall = 1]
        ELSE [base EXCEPT !.FitToPagesWide = Off, !.FitToPagesTall = Off,
                          !.Zoom = IntOf(o.scale)]

\* lines 50-82: the page-setup calls of one sheet, in the order of the code;
\* each assigns one property of ws.PageSetup. Margins are in tenths of an inch.
ApplyLayout(ps, o) ==
    LET paper == [ps EXCEPT !.PaperSize = paper_size_map(o.paper_size)]
        orient == [paper EXCEPT !.Orientation =
                      IF o.orientation_choice = "Portrait" THEN 1 ELSE 2]
        margin == [orient EXCEPT !.LeftMargin = o.margins,
                                 !.RightMargin = o.margins,
                                 !.TopMargin = o.margins,
                                 !.BottomMargin = o.margins]
    IN  IF o.fit_to_page
        THEN [margin EXCEPT !.Zoom = Off, !.FitToPagesWide = 1, !.FitToPagesTall = 1]
        ELSE IF o.fit_columns_wide
        THEN [margin EXCEPT !.Zoom = Off, !.FitToPagesWide = 1, !.FitToPagesTall = Off]
        ELSE [margin EXCEPT !.FitToPagesWide = Off, !.FitToPagesTall = Off,
                            !.Zoom = IntOf(o.scale)]

\* the widgets' initial values (lines 17-22)
DefaultOptions ==
    [scale |-> 100, fit_to_page |-> FALSE, orientation_choice |-> "Portrait",
     fit_columns_wide |-> FALSE, margins |-> 5, paper_size |-> "Letter (8.5x11)"]

\* the page setup a sheet carries before the script touches it (the engine's
\* defaults for a new sheet: Letter, portrait, zoom 100, margins 0.7 / 0.75)
SheetDefault ==
    [PaperSize |-> 1, Orientation |-> 1, LeftMargin |-> 7, RightMargin |-> 7,
     TopMargin |-> 8, BottomMargin |-> 8, Zoom |-> 100,
     FitToPagesWide |-> 1, FitToPagesTall |-> 1]

\* ------------------------------------------------------------------ state
VARIABLES
    pc,             \* position of the script run
    req,            \* number of the current script run (conversion request)
    uploaded_files, \* the uploads the handler iterates over
    fileIdx,        \* index of the workbook being processed (for file in ...)
    outcome,        \* what the requester got: none / rejected / download / exception
    messages,       \* st.error diagnostics of this run
    zipf,           \* entries written to the archive of this run
    zipState,       \* none / open / closed
    temp_excel,     \* staged temporary workbook of the current file
    base_name,      \* os.path.splitext(file.name)[0] of the current file
    stagedFiles,    \* disk: staged temporary workbooks that exist
    outDirs,        \* disk: output_<base_name> directories that exist
    outFiles,       \* disk: files inside the output directories
    tmpPdfs,        \* disk: fallback temporary PDFs that exist
    excel,          \* engine handle of the current session: none / live / quit
    wb,             \* workbook of the current session: none / open / closed
    liveEngines,    \* rendering-engine processes alive on the machine
    comInits,       \* CoInitialize calls not yet matched by CoUninitialize
    sheets,         \* wb.Sheets of the open workbook, in native order
    sheetIdx,       \* index of the sheet being processed (for sheet in wb.Sheets)
    tmp_pdf,        \* fallback temporary file of the current sheet, or NoFile
    results,        \* per processed sheet of this session: how its export ended
    wbLog,          \* per workbook of this run whose session ended: how it ended
    opts,           \* the layout widgets' values (scale, fit_to_page, ...)
    pageSetup,      \* ws.PageSetup of the sheet being processed
    appliedSetups,  \* the page setups under which this run attempted an export
    attempted       \* the sheets of this session whose primary export was attempted

vars == << pc, req, uploaded_files, fileIdx, outcome, messages, zipf, zipState,
           temp_excel, base_name, stagedFiles, outDirs, outFiles, tmpPdfs,
           excel, wb, liveEngines, comInits, sheets, sheetIdx, tmp_pdf,
           results, wbLog, opts, pageSetup, appliedSetups, attempted >>

disk == << stagedFiles, outDirs, outFiles, tmpPdfs >>
engine == << liveEngines, comInits >>
session == << excel, wb, sheets, sheetIdx, tmp_pdf, results >>
request == << req, uploaded_files, fileIdx, outcome, zipf, zipState, temp_excel,
              base_name, wbLog >>

layout == << opts, pageSetup, appliedSetups, attempted >>

NoFile == << >>

\* st.error("Please upload at least one Excel file.")
NoInput == [kind |-> "no input", file |-> 0, sheet |-> 0]

\* what an export writes: which sheet of which workbook of which run it
\* renders, and whether the export completed
Rendering(complete) ==
    [run |-> req, file |-> fileIdx, sheet |-> sheetIdx, complete |-> complete]

\* os.path.join(output_folder, f"{sheet_name}.pdf") for the current sheet
pdf_path == [dir |-> base_name, name |-> PdfName(sheets[sheetIdx])]

Exists(path) == \E f \in outFiles : f.dir = path.dir /\ f.name = path.name

\* the files of the disk after path is removed / after path is (over)written
Removed(files, path) == { f \in files : ~(f.dir = path.dir /\ f.name = path.name) }
Written(files, path, content) ==
    Removed(files, path) \cup { [dir |-> path.dir, name |-> path.name, src |-> content] }

Init ==
    /\ pc = "idle"
    /\ req = 1
    /\ uploaded_files = << >>
    /\ fileIdx = 0
    /\ outcome = "none"
    /\ messages = << >>
    /\ zipf = {}
    /\ zipState = "none"
    /\ temp_excel = NoFile
    /\ base_name = << >>
    /\ stagedFiles = {}
    /\ outDirs = {}
    /\ outFiles = {}
    /\ tmpPdfs = {}
    /\ excel = "none"
    /\ wb = "none"
    /\ liveEngines = 0
    /\ comInits = 0
    /\ sheets = << >>
    /\ sheetIdx = 0
    /\ tmp_pdf = NoFile
    /\ results = << >>
    /\ wbLog = << >>
    /\ opts = DefaultOptions
    /\ pageSetup = SheetDefault
    /\ appliedSetups = {}
    /\ attempted = << >>

\* ----------------------------------------------------------------- handler
\* Convert without the check for an empty upload list
ConvertUnchecked(files) ==
    /\ pc = "idle"
    /\ uploaded_files' = files
    /\ zipState' = "open"
    /\ IF files = << >>
       THEN fileIdx' = fileIdx /\ pc' = "end with"
       ELSE fileIdx' = 1 /\ pc' = "stage"
    /\ UNCHANGED << req, messages, outcome, zipf, temp_excel, base_name, wbLog >>
    /\ UNCHANGED << disk, engine, session >>
    /\ UNCHANGED layout

\* if st.button("Convert to PDF"): if not uploaded_files: st.error(...)
\* else: zip_buffer = BytesIO(); with zipfile.ZipFile(zip_buffer, "w") ...
Convert(files) ==
    /\ pc = "idle"
    /\ uploaded_files' = files
    /\ IF files = << >>
       THEN /\ messages' = Append(messages, NoInput)
            /\ outcome' = "rejected"
            /\ pc' = "done"
            /\ UNCHANGED << zipState, fileIdx >>
       ELSE /\ zipState' = "open"
            /\ fileIdx' = 1
            /\ pc' = "stage"
            /\ UNCHANGED << messages, outcome >>
    /\ UNCHANGED << req, zipf, temp_excel, base_name, wbLog >>
    /\ UNCHANGED << disk, engine, session >>
    /\ UNCHANGED layout

\* An exception leaves convert_excel_fast and the handler: the with block
\* closes the archive, nothing after the raising call runs, and the run ends
\* with the exception shown to the requester.
Raise(how) ==
    /\ pc' = "aborted"
    /\ outcome' = "exception"
    /\ zipState' = "closed"
    /\ wbLog' = Append(wbLog, how)
    /\ UNCHANGED << req, uploaded_files, fileIdx, messages, zipf, temp_excel, base_name >>
    /\ UNCHANGED << disk, engine, session >>
    /\ UNCHANGED layout

\* tmp = NamedTemporaryFile(delete=False, suffix=ext); write; close;
\* base_name = splitext(file.name)[0]; os.makedirs(output_folder, exist_ok=True)
Stage ==
    /\ pc = "stage"
    /\ LET name == uploaded_files[fileIdx]
           tmp == [run |-> req, file |-> fileIdx, ext |-> splitext(name).ext]
       IN  /\ temp_excel' = tmp
           /\ stagedFiles' = stagedFiles \cup { tmp }
           /\ base_name' = splitext(name).root
           /\ outDirs' = outDirs \cup { splitext(name).root }
    /\ excel' = "none"
    /\ wb' = "none"
    /\ sheets' = << >>
    /\ sheetIdx' = 0
    /\ tmp_pdf' = NoFile
    /\ results' = << >>
    /\ pc' = "start"
    /\ UNCHANGED << req, uploaded_files, fileIdx, outcome, messages, zipf, zipState, wbLog >>
    /\ UNCHANGED << outFiles, tmpPdfs, engine >>
    /\ pageSetup' = SheetDefault
    /\ attempted' = << >>
    /\ UNCHANGED << opts, appliedSetups >>

\* ------------------------------------------------------ convert_excel_fast
\* pythoncom.CoInitialize(); excel = DispatchEx(...); os.makedirs(output_folder)
StartEngine ==
    /\ pc = "start"
    /\ comInits' = comInits + 1
    /\ liveEngines' = liveEngines + 1
    /\ excel' = "live"
    /\ outDirs' = outDirs \cup { base_name }
    /\ pc' = "open"
    /\ UNCHANGED << request, messages, stagedFiles, outFiles, tmpPdfs >>
    /\ UNCHANGED << wb, sheets, sheetIdx, tmp_pdf, results >>
    /\ UNCHANGED layout

\* wb = excel.Workbooks.Open(input_file) returns the workbook
OpenWorkbook ==
    /\ pc = "open"
    /\ \E ss \in SheetLists : sheets' = ss
    /\ wb' = "open"
    /\ sheetIdx' = 1
    /\ pc' = "setup"
    /\ UNCHANGED << request, messages, disk, engine, excel, tmp_pdf, results >>
    /\ UNCHANGED layout

\* wb = excel.Workbooks.Open(input_file) raises
OpenWorkbookFails ==
    /\ pc = "open"
    /\ Raise("open failed")

\* the page-setup calls made for the first sheet of a workbook only
PageSetupFirstSheetOnly ==
    /\ pc = "setup"
    /\ pageSetup' = IF sheetIdx = 1 THEN ApplyLayout(pageSetup, opts) ELSE pageSetup
    /\ pc' = "export"
    /\ UNCHANGED << request, messages, disk, engine, session >>
    /\ UNCHANGED << opts, appliedSetups, attempted >>

\* ws = wb.Worksheets(sheet.Name); ws.PageSetup.PaperSize = ... ;
\* ws.PageSetup.Zoom = ... : every page-setup call returns
PageSetup ==
    /\ pc = "setup"
    /\ pageSetup' = ApplyLayout(pageSetup, opts)
    /\ pc' = "export"
    /\ UNCHANGED << request, messages, disk, engine, session >>
    /\ UNCHANGED << opts, appliedSetups, attempted >>

\* one of the page-setup calls raises: nothing in convert_excel_fast catches it
PageSetupRaises ==
    /\ pc = "setup"
    /\ Raise("page setup raised")

\* the loop with break in place of continue after a failed sheet
NextSheetBreakOnFailure(status) ==
    /\ results' = Append(results, status)
    /\ IF sheetIdx < Len(sheets) /\ status # "Failed"
       THEN sheetIdx' = sheetIdx + 1 /\ pc' = "setup"
       ELSE sheetIdx' = sheetIdx /\ pc' = "close"
    /\ pageSetup' = SheetDefault

\* the loop moves to the next sheet, or leaves the loop after the last one
NextSheet(status) ==
    /\ results' = Append(results, status)
    /\ IF sheetIdx < Len(sheets)
       THEN sheetIdx' = sheetIdx + 1 /\ pc' = "setup"
       ELSE sheetIdx' = sheetIdx /\ pc' = "close"
    /\ pageSetup' = SheetDefault

\* try: ws.ExportAsFixedFormat(0, pdf_path) returns
ExportPrimary ==
    /\ pc = "export"
    /\ outFiles' = Written(outFiles, pdf_path, Rendering(TRUE))
    /\ NextSheet("Exported")
    /\ UNCHANGED << request, messages, stagedFiles, outDirs, tmpPdfs, engine >>
    /\ UNCHANGED << excel, wb, sheets, tmp_pdf >>
    /\ attempted' = Append(attempted, sheets[sheetIdx])
    /\ appliedSetups' = appliedSetups \cup { pageSetup }
    /\ UNCHANGED opts

\* ws.ExportAsFixedFormat(0, pdf_path) raises; the engine may have written an
\* incomplete file at pdf_path before it raised
ExportPrimaryFails ==
    /\ pc = "export"
    /\ \E leftover \in BOOLEAN :
          outFiles' = IF leftover
                      THEN Written(outFiles, pdf_path, Rendering(FALSE))
                      ELSE outFiles
    /\ pc' = "fallback"
    /\ UNCHANGED << request, messages, stagedFiles, outDirs, tmpPdfs, engine, session >>
    /\ attempted' = Append(attempted, sheets[sheetIdx])
    /\ appliedSetups' = appliedSetups \cup { pageSetup }
    /\ UNCHANGED << opts, pageSetup >>

\* tmp_pdf = tempfile.NamedTemporaryFile(delete=False, suffix=".pdf"); close
TmpId == [run |-> req, file |-> fileIdx, sheet |-> sheetIdx]
TmpFile(id, complete) ==
    [run |-> id.run, file |-> id.file, sheet |-> id.sheet, complete |-> complete]
TmpAt(id) == { TmpFile(id, c) : c \in BOOLEAN }

AllocateTemp ==
    /\ pc = "fallback"
    /\ tmp_pdf' = TmpId
    /\ tmpPdfs' = tmpPdfs \cup { TmpFile(TmpId, FALSE) }
    /\ pc' = "fallback export"
    /\ UNCHANGED << request, messages, stagedFiles, outDirs, outFiles, engine >>
    /\ UNCHANGED << excel, wb, sheets, sheetIdx, results >>
    /\ UNCHANGED layout

\* ws.ExportAsFixedFormat(0, tmp_pdf.name) returns
ExportFallback ==
    /\ pc = "fallback export"
    /\ tmpPdfs' = (tmpPdfs \ TmpAt(tmp_pdf)) \cup { TmpFile(tmp_pdf, TRUE) }
    /\ pc' = "remove destination"
    /\ UNCHANGED << request, messages, stagedFiles, outDirs, outFiles, engine, session >>
    /\ UNCHANGED layout

\* except Exception as e2: remove tmp_pdf if it exists; st.error(...); continue
GiveUpSheet ==
    /\ tmpPdfs' = tmpPdfs \ TmpAt(tmp_pdf)
    /\ messages' = Append(messages, [kind |-> "sheet failed", file |-> fileIdx, sheet |-> sheetIdx])
    /\ NextSheet("Failed")
    /\ UNCHANGED << request, stagedFiles, outDirs, engine, excel, wb, sheets, tmp_pdf >>
    /\ UNCHANGED << opts, appliedSetups, attempted >>

\* ws.ExportAsFixedFormat(0, tmp_pdf.name) raises
ExportFallbackFails ==
    /\ pc = "fallback export"
    /\ GiveUpSheet
    /\ UNCHANGED outFiles

\* if os.path.exists(pdf_path): os.remove(pdf_path)
RemoveDestination ==
    /\ pc = "remove destination"
    /\ outFiles' = Removed(outFiles, pdf_path)
    /\ pc' = "move"
    /\ UNCHANGED << request, messages, stagedFiles, outDirs, tmpPdfs, engine, session >>
    /\ UNCHANGED layout

\* shutil.move(tmp_pdf.name, pdf_path) returns
MoveIntoPlace ==
    /\ pc = "move"
    /\ outFiles' = Written(outFiles, pdf_path, Rendering(TRUE))
    /\ tmpPdfs' = tmpPdfs \ TmpAt(tmp_pdf)
    /\ NextSheet("ExportedViaFallback")
    /\ UNCHANGED << request, messages, stagedFiles, outDirs, engine >>
    /\ UNCHANGED << excel, wb, sheets, tmp_pdf >>
    /\ UNCHANGED << opts, appliedSetups, attempted >>

\* shutil.move(tmp_pdf.name, pdf_path) raises
MoveFails ==
    /\ pc = "move"
    /\ GiveUpSheet
    /\ UNCHANGED outFiles

\* wb.Close(False); excel.Quit(); pythoncom.CoUninitialize()
CloseAndQuit ==
    /\ pc = "close"
    /\ wb' = "closed"
    /\ excel' = "quit"
    /\ liveEngines' = liveEngines - 1
    /\ comInits' = comInits - 1
    /\ wbLog' = Append(wbLog, "converted")
    /\ pc' = "archive"
    /\ UNCHANGED << req, uploaded_files, fileIdx, outcome, messages, zipf, zipState,
                    temp_excel, base_name >>
    /\ UNCHANGED << disk, sheets, sheetIdx, tmp_pdf, results >>
    /\ UNCHANGED layout

\* --------------------------------------------------- handler, continued
\* for pdf_file in os.listdir(output_folder): zipf.write(..., f"{base_name}/{pdf_file}")
ArchiveEntries ==
    { [name |-> << base_name, f.name >>, src |-> f.src, file |-> fileIdx] :
        f \in { g \in outFiles : g.dir = base_name } }

Archive ==
    /\ pc = "archive"
    /\ zipf' = zipf \cup ArchiveEntries
    /\ pc' = "cleanup"
    /\ UNCHANGED << req, uploaded_files, fileIdx, outcome, messages, zipState,
                    temp_excel, base_name, wbLog >>
    /\ UNCHANGED << disk, engine, session >>
    /\ UNCHANGED layout

\* os.remove(temp_excel); remove every file of output_folder; os.rmdir;
\* then the next file of the loop, or the end of the with block
Cleanup ==
    /\ pc = "cleanup"
    /\ stagedFiles' = stagedFiles \ { temp_excel }
    /\ outFiles' = { f \in outFiles : f.dir # base_name }
    /\ outDirs' = outDirs \ { base_name }
    /\ IF fileIdx < Len(uploaded_files)
       THEN fileIdx' = fileIdx + 1 /\ pc' = "stage"
       ELSE fileIdx' = fileIdx /\ pc' = "end with"
    /\ UNCHANGED << req, uploaded_files, outcome, messages, zipf, zipState,
                    temp_excel, base_name, wbLog >>
    /\ UNCHANGED << tmpPdfs, engine, session >>
    /\ UNCHANGED layout

\* leaving with zipfile.ZipFile(...) closes the archive; zip_buffer.seek(0)
CloseArchive ==
    /\ pc = "end with"
    /\ zipState' = "closed"
    /\ pc' = "offer"
    /\ UNCHANGED << req, uploaded_files, fileIdx, outcome, messages, zipf,
                    temp_excel, base_name, wbLog >>
    /\ UNCHANGED << disk, engine, session >>
    /\ UNCHANGED layout

\* st.success(...); st.download_button(..., data=zip_buffer, ...)
OfferDownload ==
    /\ pc = "offer"
    /\ outcome' = "download"
    /\ pc' = "done"
    /\ UNCHANGED << req, uploaded_files, fileIdx, messages, zipf, zipState,
                    temp_excel, base_name, wbLog >>
    /\ UNCHANGED << disk, engine, session >>
    /\ UNCHANGED layout

\* The script run is over; the next interaction runs the script again with
\* fresh locals. The disk and the engine processes are what the last run left.
Rerun ==
    /\ pc \in { "done", "aborted" }
    /\ req < MaxRequests
    /\ req' = req + 1
    /\ pc' = "idle"
    /\ uploaded_files' = << >>
    /\ fileIdx' = 0
    /\ outcome' = "none"
    /\ messages' = << >>
    /\ zipf' = {}
    /\ zipState' = "none"
    /\ temp_excel' = NoFile
    /\ base_name' = << >>
    /\ excel' = "none"
    /\ wb' = "none"
    /\ sheets' = << >>
    /\ sheetIdx' = 0
    /\ tmp_pdf' = NoFile
    /\ results' = << >>
    /\ wbLog' = << >>
    /\ UNCHANGED << disk, engine >>
    /\ pageSetup' = SheetDefault
    /\ appliedSetups' = {}
    /\ attempted' = << >>
    /\ UNCHANGED opts

\* the requester moves a layout widget before pressing the button
\* (lines 17-22): the values are those the widgets can deliver
UiOptions ==
    { DefaultOptions,
      [scale |-> 50, fit_to_page |-> TRUE, orientation_choice |-> "Landscape",
       fit_columns_wide |-> FALSE, margins |-> 0, paper_size |-> "A4 (210x297mm)"],
      [scale |-> 200, fit_to_page |-> FALSE, orientation_choice |-> "Portrait",
       fit_columns_wide |-> TRUE, margins |-> 10, paper_size |-> "A3 (297x420mm)"],
      [scale |-> 150, fit_to_page |-> FALSE, orientation_choice |-> "Landscape",
       fit_columns_wide |-> FALSE, margins |-> 3, paper_size |-> "A4 (210x297mm)"] }

ChangeOptions ==
    /\ pc = "idle"
    /\ opts' \in UiOptions \ { opts }
    /\ UNCHANGED << pc, request, messages, disk, engine, session >>
    /\ UNCHANGED << pageSetup, appliedSetups, attempted >>

Next ==
    \/ \E files \in Uploads : Convert(files)
    \/ Stage
    \/ StartEngine
    \/ OpenWorkbook
    \/ OpenWorkbookFails
    \/ PageSetup
    \/ PageSetupRaises
    \/ ExportPrimary
    \/ ExportPrimaryFails
    \/ AllocateTemp
    \/ ExportFallback
    \/ ExportFallbackFails
    \/ RemoveDestination
    \/ MoveIntoPlace
    \/ MoveFails
    \/ CloseAndQuit
    \/ Archive
    \/ Cleanup
    \/ CloseArchive
    \/ OfferDownload
    \/ Rerun

Spec == Init /\ [][Next]_vars

TypeOK ==
    /\ req \in 1..MaxRequests
    /\ uploaded_files \in Uploads
    /\ fileIdx \in 0..MaxFiles
    /\ outcome \in { "none", "rejected", "download", "exception" }
    /\ zipState \in { "none", "open", "closed" }
    /\ excel \in { "none", "live", "quit" }
    /\ wb \in { "none", "open", "closed" }
    /\ liveEngines \in 0..MaxRequests
    /\ comInits \in 0..MaxRequests
    /\ sheetIdx \in 0..MaxSheets
    /\ Cardinality(appliedSetups) <= 1
    /\ Len(attempted) <= MaxSheets

\* ----------------------------------------------------------------- claims
\* the script run (conversion request) is over
RequestEnded == pc \in { "done", "aborted" }

\* convert_excel_fast has just returned, or has been left by an exception
SessionEnded == pc \in { "archive", "aborted" }

\* the handler is done with the current workbook: its files were enumerated
\* into the archive, or the run was left by an exception
WorkbookOver == pc \in { "cleanup", "aborted" }

\* the archive holds, at the sheet's path, the complete PDF of sheet i of the
\* current workbook
HasEntry(i) ==
    \E e \in zipf :
        /\ e.file = fileIdx
        /\ e.name = << base_name, PdfName(sheets[i]) >>
        /\ e.src = [run |-> req, file |-> fileIdx, sheet |-> i, complete |-> TRUE]

\* the archive holds something an export attempt of sheet i wrote
HasAnyEntryOf(i) ==
    \E e \in zipf :
        /\ e.file = fileIdx
        /\ e.src.run = req /\ e.src.file = fileIdx /\ e.src.sheet = i

TempGone(i) == tmpPdfs \cap TmpAt([run |-> req, file |-> fileIdx, sheet |-> i]) = {}

\* C1: in every terminal state of a session whose engine was started, the
\* engine has been released: the workbook is not open and Quit was called.
C1_EngineReleasedOnEveryExit ==
    (SessionEnded /\ excel # "none") => (excel = "quit" /\ wb # "open")

\* C2: when the run is over, a workbook that could not be opened has
\* contributed no archive entry, and the session of every uploaded workbook
\* (those after it included) has run.
C2_OpenFailureDoesNotStopRequest ==
    RequestEnded =>
        \A i \in 1..Len(wbLog) :
            wbLog[i] = "open failed" =>
                /\ ~ \E e \in zipf : e.file = i
                /\ Len(wbLog) = Len(uploaded_files)

\* C3: when the run is over, however it ended, no staged temporary workbook
\* and no output directory remains on disk.
C3_NothingLeftOnDisk ==
    RequestEnded => (stagedFiles = {} /\ outDirs = {} /\ outFiles = {})

\* C4: a run that is over ended in the rejection when nothing was uploaded,
\* and otherwise in the offer of the finished archive.
C4_RejectionOrDownload ==
    RequestEnded =>
        IF uploaded_files = << >>
        THEN outcome = "rejected"
        ELSE outcome = "download" /\ zipState = "closed"

\* C5: once the files of a workbook whose N sheets were all exported have
\* been enumerated, the archive holds exactly N entries under <base_name>/.
C5_OneEntryPerSheet ==
    (/\ pc = "cleanup"
     /\ \A i \in 1..Len(sheets) : results[i] \in { "Exported", "ExportedViaFallback" })
        => Cardinality({ e \in zipf : e.name[1] = base_name }) = Len(sheets)

\* C6: a session in which both exports of some sheet failed has reported the
\* failure, has gone through every sheet of the workbook, and ends with the
\* workbook closed and the engine released.
C6_FailedSheetDoesNotAbort ==
    (SessionEnded /\ \E i \in 1..Len(results) : results[i] = "Failed") =>
        /\ Len(results) = Len(sheets)
        /\ wb = "closed"
        /\ excel = "quit"
        /\ \A i \in 1..Len(results) :
              results[i] = "Failed" =>
                  \E k \in 1..Len(messages) :
                      messages[k] = [kind |-> "sheet failed", file |-> fileIdx, sheet |-> i]

\* C7: once the files of a workbook one of whose sheets failed both exports
\* have been enumerated, the archive holds the PDF of every other sheet, holds
\* nothing the export attempts of the failed sheet wrote, and the failed
\* sheet's fallback temporary file is gone.
C7_FailedSheetOmittedOthersKept ==
    pc = "cleanup" =>
        \A i \in 1..Len(results) :
            results[i] = "Failed" =>
                /\ \A j \in 1..Len(sheets) :
                      (j # i /\ (j > Len(results) \/ results[j] # "Failed")) => HasEntry(j)
                /\ ~ HasAnyEntryOf(i)
                /\ TempGone(i)

\* C8: when the handler is done with a workbook, a sheet exported through the
\* fallback has its PDF in the archive at <base_name>/<sanitized name>.pdf and
\* its fallback temporary file is gone.
C8_FallbackSheetArchived ==
    WorkbookOver =>
        \A i \in 1..Len(results) :
            results[i] = "ExportedViaFallback" => (HasEntry(i) /\ TempGone(i))

\* C9: a run triggered with no upload ends at once in the rejection: the
\* triggering step changes nothing on disk and starts no engine, and the run
\* has no archive, no session and no download.
C9_NoInputOnlyRejects ==
    /\ [] ((pc # "idle" /\ uploaded_files = << >>) =>
              /\ pc = "done"
              /\ outcome = "rejected"
              /\ messages = << NoInput >>
              /\ zipState = "none" /\ zipf = {}
              /\ excel = "none" /\ wb = "none"
              /\ temp_excel = NoFile /\ wbLog = << >>)
    /\ [][(pc = "idle" /\ pc' # "idle" /\ uploaded_files' = << >>) =>
              UNCHANGED << disk, engine >>]_vars

C9_Witness ==
    /\ pc = "done"
    /\ uploaded_files = << >>
    /\ outcome = "rejected"

\* C10: at most one rendering-engine process is alive at any moment.
C10_AtMostOneEngine == liveEngines <= 1

\* ------------------------------------------- one sheet, arbitrary arguments
\* convert_excel_fast at the top of its loop body, called on a staged workbook
\* with one sheet of the given name, the given options, and the given page
\* setup stored in the sheet
SheetUnitInit(name, o, prior) ==
    /\ pc = "setup"
    /\ req = 1
    /\ uploaded_files = << <<"A", ".", "x", "l", "s", "x">> >>
    /\ fileIdx = 1
    /\ outcome = "none"
    /\ messages = << >>
    /\ zipf = {}
    /\ zipState = "open"
    /\ temp_excel = [run |-> 1, file |-> 1, ext |-> <<".", "x", "l", "s", "x">>]
    /\ base_name = << "A" >>
    /\ stagedFiles = { [run |-> 1, file |-> 1, ext |-> <<".", "x", "l", "s", "x">>] }
    /\ outDirs = { << "A" >> }
    /\ outFiles = {}
    /\ tmpPdfs = {}
    /\ excel = "live"
    /\ wb = "open"
    /\ liveEngines = 1
    /\ comInits = 1
    /\ sheets = << name >>
    /\ sheetIdx = 1
    /\ tmp_pdf = NoFile
    /\ results = << >>
    /\ wbLog = << >>
    /\ opts = o
    /\ pageSetup = prior
    /\ appliedSetups = {}
    /\ attempted = << >>

SheetUnitNext ==
    \/ PageSetup
    \/ ExportPrimary

\* names for the sanitizer: nothing or a padding of 118 to 121 letters, then
\* at most MaxTail characters, forbidden ones included
NameAlphabet == Forbidden \cup { "a", "_" }
Padding(n) == [i \in 1..n |-> "a"]
AnyNames ==
    { Padding(n) \o t : n \in { 0 } \cup ((MaxNameLen - 2)..(MaxNameLen + 1)),
                        t \in SeqsUpTo(NameAlphabet, MaxTail) }

InitSanitize == \E name \in AnyNames : SheetUnitInit(name, DefaultOptions, SheetDefault)

SpecSanitize == InitSanitize /\ [][SheetUnitNext]_vars

\* C11: the sanitized name of every sheet, and of every PDF written, is a
\* fixed point of the sanitizer, has at most 120 characters and contains none
\* of the characters < > : " \ / | ? *.
Clean(s) ==
    /\ Len(s) <= 120
    /\ \A k \in 1..Len(s) : s[k] \notin { "<", ">", ":", "\"", "\\", "/", "|", "?", "*" }

C11_SanitizeIdempotentBoundedClean ==
    /\ \A i \in 1..Len(sheets) :
          /\ _sanitize(_sanitize(sheets[i])) = _sanitize(sheets[i])
          /\ Clean(_sanitize(sheets[i]))
    /\ \A f \in outFiles :
          /\ Len(f.name) >= 4
          /\ Clean(SubSeq(f.name, 1, Len(f.name) - 4))
          /\ _sanitize(SubSeq(f.name, 1, Len(f.name) - 4)) = SubSeq(f.name, 1, Len(f.name) - 4)

C11_Witness ==
    /\ pc = "close"
    /\ Len(sheets[1]) > 120
    /\ \E k \in 1..120 : sheets[1][k] \in Forbidden
    /\ \E k \in 121..Len(sheets[1]) : sheets[1][k] \in Forbidden
    /\ \E f \in outFiles : Len(f.name) = 124

\* arguments convert_excel_fast accepts: any integer scale (0 is left out: it
\* is written like False here), margins in tenths of an inch, any label
AnyOptions ==
    [scale : { -5, 49, 50, 100, 200, 201, 300 },
     fit_to_page : BOOLEAN,
     orientation_choice : { "Portrait", "Landscape" },
     fit_columns_wide : BOOLEAN,
     margins : { 0, 5, 10 },
     paper_size : { "Letter (8.5x11)", "A4 (210x297mm)", "A3 (297x420mm)", "Legal", "" }]

\* page setups a sheet may carry when the workbook is opened
PriorSetups ==
    { SheetDefault,
      [PaperSize |-> 5, Orientation |-> 2, LeftMargin |-> 2, RightMargin |-> 2,
       TopMargin |-> 2, BottomMargin |-> 2, Zoom |-> Off,
       FitToPagesWide |-> 2, FitToPagesTall |-> 3] }

InitPageSetup ==
    \E o \in AnyOptions, prior \in PriorSetups : SheetUnitInit(<< "c" >>, o, prior)

SpecPageSetup == InitPageSetup /\ [][SheetUnitNext]_vars

\* the page setups the script has finished applying: that of the current sheet
\* once its page-setup calls returned, and those exports were attempted under
SetupsApplied ==
    appliedSetups \cup (IF pc = "export" THEN { pageSetup } ELSE {})

FitsPage(ps) == ps.Zoom = Off /\ ps.FitToPagesWide = 1 /\ ps.FitToPagesTall = 1
FitsColumns(ps) == ps.Zoom = Off /\ ps.FitToPagesWide = 1 /\ ps.FitToPagesTall = Off
ExplicitZoom(ps) == ps.FitToPagesWide = Off /\ ps.FitToPagesTall = Off /\ ps.Zoom # Off

\* C12: the page setup applied has exactly one fit mode, chosen by the
\* priority fit_to_page > fit_columns_wide > scale, whatever the sheet carried.
C12_OneFitModeByPriority ==
    \A ps \in SetupsApplied :
        /\ Cardinality({ m \in { "page", "columns", "zoom" } :
                           \/ m = "page" /\ FitsPage(ps)
                           \/ m = "columns" /\ FitsColumns(ps)
                           \/ m = "zoom" /\ ExplicitZoom(ps) }) = 1
        /\ opts.fit_to_page => FitsPage(ps)
        /\ (~ opts.fit_to_page /\ opts.fit_columns_wide) => FitsColumns(ps)
        /\ (~ opts.fit_to_page /\ ~ opts.fit_columns_wide) =>
              (ExplicitZoom(ps) /\ ps.Zoom = opts.scale)

C12_Witness ==
    /\ pc = "export"
    /\ opts.fit_to_page /\ opts.fit_columns_wide
    /\ FitsPage(pageSetup)
    /\ appliedSetups = {}

RunNext ==
    \/ ChangeOptions
    \/ \E files \in Uploads : Convert(files)
    \/ Stage
    \/ StartEngine
    \/ OpenWorkbook
    \/ OpenWorkbookFails
    \/ PageSetup
    \/ PageSetupRaises
    \/ ExportPrimary
    \/ ExportPrimaryFails
    \/ AllocateTemp
    \/ ExportFallback
    \/ ExportFallbackFails
    \/ RemoveDestination
    \/ MoveIntoPlace
    \/ MoveFails
    \/ CloseAndQuit
    \/ Archive
    \/ Cleanup
    \/ CloseArchive
    \/ OfferDownload

SpecRun == Init /\ [][RunNext]_vars

\* the session is inside the loop body of sheet sheetIdx, before / after the
\* primary export of that sheet was attempted
BeforePrimary == pc \in { "setup", "export" }
AfterPrimary == pc \in { "fallback", "fallback export", "remove destination", "move" }
SessionReturned == pc \in { "close", "archive", "cleanup" }

C15_DestinationNeverMissing ==
    [][(AfterPrimary /\ Exists(pdf_path)) =>
          \E f \in outFiles' : f.dir = base_name /\ f.name = PdfName(sheets[sheetIdx])]_vars

\* the page setup the option values dictate: every property the page-setup
\* calls assign, whatever the sheet carried before
Dictated == ApplyLayout(SheetDefault, opts)

ExportStage == pc \in { "export" } \cup
                      { "fallback", "fallback export", "remove destination", "move" }

\* C16: the layout options are fixed for the whole request: whenever an
\* export of a sheet (primary or fallback) is about to be or has been
\* attempted the sheet carries the page setup the options dictate, every sheet
\* of every workbook exported so far was exported with that same page setup,
\* and no step of the conversion changes the option values.
C16_OneLayoutPerRequest ==
    /\ [](/\ ExportStage => pageSetup = Dictated
          /\ appliedSetups \subseteq { Dictated })
    /\ [][pc # "idle" => opts' = opts]_vars

C16_Witness ==
    /\ pc = "fallback export"
    /\ opts # DefaultOptions
    /\ fileIdx = 2
    /\ sheetIdx = 2
    /\ appliedSetups = { pageSetup }
    /\ \E i \in 1..Len(wbLog) : wbLog[i] = "converted"

\* C17: every entry of the archive was produced by this request's conversion
\* session for the workbook it is filed under; a file that was in the output
\* directory before the session started is never archived.
C17_OnlyThisSessionsFilesArchived ==
    \A e \in zipf : e.src.run = req /\ e.src.file = e.file

\* C18: no two entries of the finished archive have the same name.
C18_EntryNamesDistinct ==
    zipState = "closed" =>
        \A e1 \in zipf : \A e2 \in zipf : e1.name = e2.name => e1 = e2

\* C19: the archive is finalized only after every uploaded workbook has been
\* processed and cleaned up, the download is offered only on the finalized
\* archive, and no entry is added to the archive once it is finalized.
C19_FinalizedAfterAllWorkbooks ==
    /\ [](/\ zipState = "closed" =>
               /\ pc \in { "offer", "done" }
               /\ Len(wbLog) = Len(uploaded_files)
               /\ \A i \in 1..Len(wbLog) : wbLog[i] = "converted"
          /\ outcome = "download" => zipState = "closed")
    /\ [][(zipState = "closed" /\ req' = req) => zipf' = zipf]_vars

=============================================================================
